---- MODULE Spec2Model ----
(***************************************************************************)
(* Itinerary recomputation (recalc_logistics), day view (day_logistics),   *)
(* routing client and credential check of the agendabanda backend.         *)
(*                                                                         *)
(* Python values are modelled as tagged records: a dict key may be absent, *)
(* hold None, a string (a tuple of one-character strings) or a number.     *)
(***************************************************************************)
EXTENDS Integers, Sequences, FiniteSets, TLC

\* ------------------------------------------------------------------------
\* Bounds of the model
\* ------------------------------------------------------------------------
MaxEvents == 3

MaxViews == 1

\* invocations of initialize_app followed in one behaviour
MaxInits == 3

\* geocode requests issued in one behaviour
MaxGeos == 2

\* longest text handed to the time parser
MaxLen == 5

\* longest leg duration, in seconds, among the provider answers converted
MaxSeconds == 150

\* ------------------------------------------------------------------------
\* Python values
\* ------------------------------------------------------------------------
Absent == [k |-> "absent", s |-> <<>>, n |-> 0]

Null == [k |-> "null", s |-> <<>>, n |-> 0]

Str(chars) == [k |-> "str", s |-> chars, n |-> 0]

Num(i) == [k |-> "num", s |-> <<>>, n |-> i]

\* dict.get(key, default): the default replaces an absent key only
Get(v, default) == IF v.k = "absent" THEN default ELSE v

\* dict.get(key) is None
IsNone(v) == v.k \in {"absent", "null"}

\* Python truthiness of a value: None, "" and 0 are falsy
Truthy(v) ==
    CASE v.k = "str" -> v.s # <<>>
      [] v.k = "num" -> v.n # 0
      [] OTHER -> FALSE

\* results of an evaluation that may raise: exc is "none" or the class raised
Ok(i) == [exc |-> "none", val |-> i]

Raise(cls) == [exc |-> cls, val |-> 0]

\* ------------------------------------------------------------------------
\* Strings and integer parsing
\* ------------------------------------------------------------------------
Digits == {"0", "1", "2", "3", "4", "5", "6", "7", "8", "9"}

DigitVal ==
    [c \in Digits |->
        CASE c = "0" -> 0 [] c = "1" -> 1 [] c = "2" -> 2 [] c = "3" -> 3
          [] c = "4" -> 4 [] c = "5" -> 5 [] c = "6" -> 6 [] c = "7" -> 7
          [] c = "8" -> 8 [] c = "9" -> 9]

\* the value of the first n characters read as a decimal numeral
RECURSIVE DecVal(_, _)
DecVal(chars, n) ==
    IF n = 0 THEN 0 ELSE 10 * DecVal(chars, n - 1) + DigitVal[chars[n]]

\* int(text) for a str: a non-empty run of decimal digits, else ValueError
IntOfChars(chars) ==
    IF chars # <<>> /\ \A j \in 1..Len(chars) : chars[j] \in Digits
    THEN Ok(DecVal(chars, Len(chars)))
    ELSE Raise("ValueError")

\* int(v) / float(v) of a Python value (the inputs used here are integral)
IntOf(v) ==
    CASE v.k = "num" -> Ok(v.n)
      [] v.k = "str" -> IntOfChars(v.s)
      [] OTHER -> Raise("TypeError")

\* the positions of the separator: s.split(sep) has one part more than these
Cuts(chars, sep) == {j \in 1..Len(chars) : chars[j] = sep}

\* s.replace(old, ""): drop every occurrence of one character
RECURSIVE Remove(_, _)
Remove(chars, c) ==
    IF chars = <<>> THEN <<>>
    ELSE (IF Head(chars) = c THEN <<>> ELSE <<Head(chars)>>) \o Remove(Tail(chars), c)

\* variant: the parts are counted with `< 2`, so further segments are ignored
parse_hhmm_first_two(v) ==
    IF ~Truthy(v) THEN Ok(0)
    ELSE IF v.k # "str" THEN Raise("AttributeError")
    ELSE LET cuts == Cuts(v.s, ":") IN
         IF cuts = {} THEN Ok(0)
         ELSE LET c == CHOOSE j \in cuts : \A x \in cuts : j <= x
                  rest == cuts \ {c}
                  e == IF rest = {} THEN Len(v.s) + 1
                       ELSE CHOOSE j \in rest : \A x \in rest : j <= x
                  h == IntOfChars(SubSeq(v.s, 1, c - 1))
                  m == IntOfChars(SubSeq(v.s, c + 1, e - 1))
              IN  IF h.exc # "none" THEN h
                  ELSE IF m.exc # "none" THEN m
                  ELSE Ok(h.val * 60 + m.val)

\* _parse_hhmm / parse_hhmm: minutes since 00:00
parse_hhmm(v) ==
    IF ~Truthy(v) THEN Ok(0)
    ELSE IF v.k # "str" THEN Raise("AttributeError")
    ELSE LET cuts == Cuts(v.s, ":") IN
         IF Cardinality(cuts) # 1 THEN Ok(0)
         ELSE LET c == CHOOSE j \in cuts : TRUE
                  h == IntOfChars(SubSeq(v.s, 1, c - 1))
                  m == IntOfChars(SubSeq(v.s, c + 1, Len(v.s)))
              IN  IF h.exc # "none" THEN h
                  ELSE IF m.exc # "none" THEN m
                  ELSE Ok(h.val * 60 + m.val)

\* ------------------------------------------------------------------------
\* Stored documents
\* ------------------------------------------------------------------------
\* None for the numeric logistics fields
NoneNum == -1

\* the `error` key is not in the dict
NoKey == "<no key>"

ErrVenueNotFound == "Venue nao encontrado"

ErrVenueNoLatLng == "Venue sem lat/lng (geocodifique os locais)"

\* venue references: "null" stands for None / a missing venueId
VenueIds == {"v1", "v2", "v3"}

VenueRefs == VenueIds \cup {"null"}

\* event.logistics is absent
NoLogistics ==
    [present |-> FALSE, toNextKm |-> NoneNum, toNextMinutes |-> NoneNum,
     toNextVenueId |-> "null", toNextUpdatedAt |-> 0, error |-> NoKey]

\* a logistics dict left by an earlier recompute of another arrangement of the day
OldLogistics ==
    [present |-> TRUE, toNextKm |-> 4200, toNextMinutes |-> 42,
     toNextVenueId |-> "v3", toNextUpdatedAt |-> 0, error |-> "stale"]

Logi(km, minutes, nextRef, ts, err) ==
    [present |-> TRUE, toNextKm |-> km, toNextMinutes |-> minutes,
     toNextVenueId |-> nextRef, toNextUpdatedAt |-> ts, error |-> err]

\* a logistics dict without its timestamp
StripTs(l) == [l EXCEPT !.toNextUpdatedAt = 0]

\* a venue document; exists = FALSE is a snapshot of a missing document
Venue(ex, addr, la, lo) == [exists |-> ex, address |-> addr, lat |-> la, lng |-> lo]

NoVenue == Venue(FALSE, Absent, Absent, Absent)

\* vdoc.to_dict() has no key at all
EmptyDict(v) == v.address.k = "absent" /\ v.lat.k = "absent" /\ v.lng.k = "absent"

\* ------------------------------------------------------------------------
\* Ordering of the day's events (list.sort with a key, stable)
\* ------------------------------------------------------------------------
SortKey(e) ==
    LET t == parse_hhmm(Get(e.startTime, Str(<<>>)))
        o == IntOf(Get(e.order, Num(999999)))
    IN  IF t.exc # "none" THEN Raise(t.exc)
        ELSE IF o.exc # "none" THEN Raise(o.exc)
        ELSE [exc |-> "none", val |-> <<t.val, o.val>>]

\* tuple comparison a <= b
KeyLE(a, b) == a[1] < b[1] \/ (a[1] = b[1] /\ a[2] <= b[2])

\* the keys of the list, computed once, in list order
RECURSIVE KeysOf(_)
KeysOf(evs) ==
    IF evs = <<>> THEN <<>>
    ELSE Append(KeysOf(SubSeq(evs, 1, Len(evs) - 1)), SortKey(evs[Len(evs)]))

\* insert index j behind every index whose key is <= its own
InsertByKey(sorted, j, keys) ==
    LET before == {x \in 1..Len(sorted) : KeyLE(keys[sorted[x]].val, keys[j].val)}
        n == Cardinality(before)
    IN  SubSeq(sorted, 1, n) \o <<j>> \o SubSeq(sorted, n + 1, Len(sorted))

\* the indices 1..n in stable key order
RECURSIVE SortStable(_, _)
SortStable(n, keys) ==
    IF n = 0 THEN <<>> ELSE InsertByKey(SortStable(n - 1, keys), n, keys)

\* events.sort(key=...): the keys are computed first, in list order; the
\* first key that raises aborts the sort
SortEvents(evs) ==
    LET keys == KeysOf(evs)
        bad == {j \in 1..Len(evs) : keys[j].exc # "none"}
    IN  IF bad # {}
        THEN [exc |-> keys[CHOOSE j \in bad : \A x \in bad : j <= x].exc, val |-> <<>>]
        ELSE LET perm == SortStable(Len(evs), keys)
             IN  [exc |-> "none", val |-> [j \in 1..Len(evs) |-> evs[perm[j]]]]

\* ------------------------------------------------------------------------
\* Routing client
\* ------------------------------------------------------------------------
\* round(a / b) of Python 3: to nearest, ties to the even neighbour
RoundHalfEven(a, b) ==
    LET q == a \div b
        r == a % b
    IN  IF 2 * r < b THEN q
        ELSE IF 2 * r > b THEN q + 1
        ELSE IF q % 2 = 0 THEN q ELSE q + 1

Max(a, b) == IF a >= b THEN a ELSE b

\* HTTP answer of the Routes API
Answer(st, nroutes, meters, dur) ==
    [status |-> st, routes |-> nroutes, distanceMeters |-> meters, duration |-> dur]

\* variant: whole minutes, seconds // 60
compute_route_minutes_km_whole(ans) ==
    IF ans.status >= 400 THEN [exc |-> "RuntimeError", minutes |-> 0, km |-> 0]
    ELSE IF ans.routes = 0 THEN [exc |-> "RuntimeError", minutes |-> 0, km |-> 0]
    ELSE LET seconds == IntOfChars(Remove(ans.duration, "s")) IN
         IF seconds.exc # "none" THEN [exc |-> seconds.exc, minutes |-> 0, km |-> 0]
         ELSE [exc |-> "none",
               minutes |-> Max(1, seconds.val \div 60),
               km |-> RoundHalfEven(ans.distanceMeters, 10)]

\* compute_route_minutes_km on the provider's answer; km is in hundredths
\* (round(distance_m / 1000.0, 2); the distances used have no tie at the
\* third decimal)
compute_route_minutes_km(ans) ==
    IF ans.status >= 400 THEN [exc |-> "RuntimeError", minutes |-> 0, km |-> 0]
    ELSE IF ans.routes = 0 THEN [exc |-> "RuntimeError", minutes |-> 0, km |-> 0]
    ELSE LET seconds == IntOfChars(Remove(ans.duration, "s")) IN
         IF seconds.exc # "none" THEN [exc |-> seconds.exc, minutes |-> 0, km |-> 0]
         ELSE [exc |-> "none",
               minutes |-> Max(1, RoundHalfEven(seconds.val, 60)),
               km |-> RoundHalfEven(ans.distanceMeters, 10)]

\* ------------------------------------------------------------------------
\* Credential check and exception mapping
\* ------------------------------------------------------------------------
Lower(w) == IF w = "Bearer" THEN "bearer" ELSE w

\* verify_bearer_token on the Authorization header, given as the words
\* around its first space (<<>> is a missing header); lib is the class
\* auth.verify_id_token raises for a token it rejects
verify_bearer_token(authorization, lib) ==
    IF authorization = <<>> THEN "ValueError"
    ELSE IF Len(authorization) # 2 \/ Lower(authorization[1]) # "bearer" THEN "ValueError"
    ELSE IF authorization[2] # "good" THEN lib
    ELSE "none"

\* the header was well-formed and its token went to auth.verify_id_token,
\* which raised
TokenRejected(authorization) ==
    /\ Len(authorization) = 2
    /\ Lower(authorization[1]) = "bearer"
    /\ authorization[2] # "good"

\* the except clauses of the handlers
StatusOf(exc) ==
    IF exc = "none" THEN 200
    ELSE IF exc = "ValueError" THEN 401
    ELSE 500

\* ------------------------------------------------------------------------
\* One iteration of the recompute loop
\* ------------------------------------------------------------------------
\* venues.get(ref): None when the reference is not a key of the map
MapGet(vmap, ref) == IF ref \in VenueIds /\ vmap[ref].exists THEN vmap[ref] ELSE NoVenue

\* `not venue`: None or an empty dict
Falsy(v) == ~v.exists \/ EmptyDict(v)

NoCoords(v) == IsNone(v.lat) \/ IsNone(v.lng)

\* (float(v["lat"]), float(v["lng"]))
Coords(v) ==
    LET la == IntOf(v.lat)
        lo == IntOf(v.lng)
    IN  IF la.exc # "none" THEN Raise(la.exc)
        ELSE IF lo.exc # "none" THEN Raise(lo.exc)
        ELSE [exc |-> "none", val |-> <<la.val, lo.val>>]

\* variant: only the current event's venue is tested for presence
OutcomeIgnoresNext(evs, i, vmap) ==
    IF i = Len(evs) THEN "terminal"
    ELSE LET cur == MapGet(vmap, evs[i].venueId)
             nxt == MapGet(vmap, evs[i + 1].venueId)
         IN  IF Falsy(cur) THEN "missing"
             ELSE IF NoCoords(cur) \/ NoCoords(nxt) THEN "ungeocoded"
             ELSE IF Coords(cur).exc # "none" \/ Coords(nxt).exc # "none" THEN "raise"
             ELSE "route"

\* variant: an event that already holds error-free logistics is not routed again
OutcomeSkipsComputed(evs, i, vmap) ==
    IF i = Len(evs) \/ (evs[i].logistics.present /\ evs[i].logistics.error = NoKey)
    THEN "terminal"
    ELSE LET cur == MapGet(vmap, evs[i].venueId)
             nxt == MapGet(vmap, evs[i + 1].venueId)
         IN  IF Falsy(cur) \/ Falsy(nxt) THEN "missing"
             ELSE IF NoCoords(cur) \/ NoCoords(nxt) THEN "ungeocoded"
             ELSE IF Coords(cur).exc # "none" \/ Coords(nxt).exc # "none" THEN "raise"
             ELSE "route"

\* what the loop body decides for the event at position i (1-based) before
\* any routing call
Outcome(evs, i, vmap) ==
    IF i = Len(evs) THEN "terminal"
    ELSE LET cur == MapGet(vmap, evs[i].venueId)
             nxt == MapGet(vmap, evs[i + 1].venueId)
         IN  IF Falsy(cur) \/ Falsy(nxt) THEN "missing"
             ELSE IF NoCoords(cur) \/ NoCoords(nxt) THEN "ungeocoded"
             ELSE IF Coords(cur).exc # "none" \/ Coords(nxt).exc # "none" THEN "raise"
             ELSE "route"

\* the class raised by the float() conversions
OutcomeExc(evs, i, vmap) ==
    LET cur == MapGet(vmap, evs[i].venueId)
        nxt == MapGet(vmap, evs[i + 1].venueId)
    IN  IF Coords(cur).exc # "none" THEN Coords(cur).exc ELSE Coords(nxt).exc

\* variant: the event's own venue reference is recorded
NextRefOwn(evs, i) == IF i < Len(evs) THEN evs[i].venueId ELSE "null"

\* next_ev.get("venueId")
NextRef(evs, i) == IF i < Len(evs) THEN evs[i + 1].venueId ELSE "null"

\* variant: origin and destination are exchanged
RouteRequestSwapped(cur, nxt) == [origin |-> Coords(nxt).val, dest |-> Coords(cur).val]

\* the origin and destination handed to the routing client
RouteRequest(cur, nxt) == [origin |-> Coords(cur).val, dest |-> Coords(nxt).val]

\* variant: the missing-venue branch does not count its write
NextUpdatesSkipsMissing(kind, updates) == IF kind = "missing" THEN updates ELSE updates + 1

\* updates += 1 after the write of any outcome
NextUpdates(kind, updates) == updates + 1

\* variant: the last event's dict carries an error key
WrittenTerminalWithError(kind, nextRef, ts) ==
    CASE kind = "terminal" -> Logi(NoneNum, NoneNum, "null", ts, ErrVenueNotFound)
      [] kind = "missing" -> Logi(NoneNum, NoneNum, nextRef, ts, ErrVenueNotFound)
      [] kind = "ungeocoded" -> Logi(NoneNum, NoneNum, nextRef, ts, ErrVenueNoLatLng)

\* the logistics dict written for a non-routed outcome
Written(kind, nextRef, ts) ==
    CASE kind = "terminal" -> Logi(NoneNum, NoneNum, "null", ts, NoKey)
      [] kind = "missing" -> Logi(NoneNum, NoneNum, nextRef, ts, ErrVenueNotFound)
      [] kind = "ungeocoded" -> Logi(NoneNum, NoneNum, nextRef, ts, ErrVenueNoLatLng)

\* ------------------------------------------------------------------------
\* Inputs
\* ------------------------------------------------------------------------
T0900 == <<"0", "9", ":", "0", "0">>

T0950 == <<"0", "9", ":", "5", "0">>

T1010 == <<"1", "0", ":", "1", "0">>

T0000 == <<"0", "0", ":", "0", "0">>

TBad == <<"a", "b", ":", "c", "d">>

\* the tenant the requests name (req.orgId) and another tenant
OrgId == "o1"

OtherOrg == "o2"

\* a document of orgs/{OrgId}/events
Event(d, st, en, ord, ref, logi) ==
    [org |-> OrgId, date |-> d, startTime |-> st, endTime |-> en, order |-> ord,
     venueId |-> ref, logistics |-> logi]

\* the event documents a day is built from
EventShapes ==
    { Event("d1", Str(T0900), Absent, Absent, "v1", OldLogistics),
      Event("d1", Str(T1010), Absent, Num(2), "v2", OldLogistics),
      Event("d1", Str(T1010), Absent, Num(1), "null", NoLogistics),
      Event("d1", Absent, Str(T0950), Absent, "v3", OldLogistics),
      Event("d1", Str(T0900), Str(T0000), Str(<<"1">>), "v1", OldLogistics),
      Event("d1", Str(TBad), Absent, Absent, "v1", OldLogistics),
      Event("d1", Str(T0900), Absent, Str(<<"x">>), "v2", OldLogistics),
      Event("d2", Str(T0900), Absent, Absent, "v2", OldLogistics) }

\* the documents stored under venue v1 and under venue v2
VenueShapes1 ==
    { NoVenue,
      Venue(TRUE, Absent, Absent, Absent),
      Venue(TRUE, Str(<<"r">>), Absent, Absent),
      Venue(TRUE, Str(<<"r">>), Num(1), Null),
      Venue(TRUE, Str(<<"r">>), Num(1), Str(<<"2">>)),
      Venue(TRUE, Str(<<"r">>), Str(<<"x">>), Num(2)) }

VenueShapes2 ==
    { Venue(TRUE, Absent, Num(3), Num(4)),
      Venue(TRUE, Str(<<"r">>), Absent, Num(4)) }

\* Authorization headers: missing, one word, wrong scheme, rejected token,
\* accepted token
Headers ==
    { <<>>, <<"Bearer">>, <<"Basic", "good">>, <<"Bearer", "bad">>, <<"Bearer", "good">> }

\* classes auth.verify_id_token may raise
LibErrors == {"ValueError", "InvalidIdTokenError"}

\* answers of the routing provider
ProviderAnswers ==
    { Answer(403, 0, 0, <<>>),
      Answer(200, 1, 10000, <<"9", "0", "0", "s">>),
      Answer(200, 1, 1234, <<"1", "0", "s">>) }

ReqDates == {"d1"}

Procs == {1}

\* ------------------------------------------------------------------------
\* State
\* ------------------------------------------------------------------------
VARIABLES
    events,      \* orgs/{orgId}/events: document id -> document
    venues,      \* orgs/{orgId}/venues: document id -> document snapshot
    call,        \* per request thread: the locals of recalc_logistics and what it did
    now,         \* clock read by datetime.utcnow()
    callsLeft,   \* requests still to be issued
    done,        \* finished requests, in order of completion
    view,        \* last response of day_logistics
    viewsLeft,   \* day views still to be issued
    probe,       \* last application of a conversion to an input, with its result
    geo,         \* last response of geocode
    geosLeft,    \* geocode requests still to be issued
    app_inited,  \* firebase_admin_client._app_inited
    initCalls,   \* number of invocations of initialize_app in this process
    initPc       \* per thread: its position in init_firebase

unitVars == <<probe>>

geoVars == <<geo, geosLeft>>

fbVars == <<app_inited, initCalls, initPc>>

vars == <<events, venues, call, now, callsLeft, done, view, viewsLeft, unitVars, geoVars, fbVars>>

EmptyMap == [v \in VenueIds |-> NoVenue]

IdleCall ==
    [pc |-> "idle", rejected |-> FALSE, date |-> "d1", evs |-> <<>>, vmap |-> EmptyMap, toFetch |-> {},
     i |-> 1, updates |-> 0, pre |-> <<>>, writes |-> <<>>, routes |-> <<>>,
     fetched |-> [v \in VenueIds |-> 0], status |-> 0, exc |-> "none", cause |-> "none",
     updated |-> 0, eventsCount |-> 0]

NoView == [status |-> 0, events |-> <<>>]

NoProbe ==
    [op |-> "none", text |-> Null, seconds |-> 0, meters |-> 0,
     exc |-> "none", val |-> 0, minutes |-> 0, km |-> 0]

NoGeo ==
    [status |-> 0, cred |-> "none", venueId |-> "null", lat |-> NoneNum, lng |-> NoneNum,
     asked |-> FALSE, pre |-> EmptyMap, post |-> EmptyMap]

\* request threads of the process (sync handlers run in a thread pool)
Threads == {1, 2, 3}

\* a thread outside init_firebase
Outside == [at |-> "out", via |-> "none"]

\* the SDK was initialised by an earlier request of this process
InitedProcess ==
    /\ app_inited = TRUE
    /\ initCalls = 1
    /\ initPc = [t \in Threads |-> Outside]

Days == UNION {[1..n -> EventShapes] : n \in 0..MaxEvents}

InitStore ==
    /\ events \in Days
    /\ venues \in {f \in [VenueIds -> VenueShapes1 \cup VenueShapes2] :
                      /\ f["v1"] \in VenueShapes1
                      /\ f["v2"] \in VenueShapes2
                      /\ f["v3"] = NoVenue}
    /\ call = [p \in Procs |-> IdleCall]
    /\ now = 1
    /\ done = <<>>
    /\ view = NoView
    /\ probe = NoProbe
    /\ geo = NoGeo
    /\ geosLeft = 0
    /\ InitedProcess

\* one recompute of a day
Init ==
    /\ InitStore
    /\ callsLeft = 1
    /\ viewsLeft = 0

\* the events of the requested date whose sort key can be computed
SortableShapes ==
    {e \in EventShapes : e.date = "d1" /\ SortKey(e).exc = "none"}

\* two recomputes in succession, over days that reach the loop (endTime
\* plays no part in a recompute)
InitTwice ==
    /\ InitStore
    /\ \A j \in 1..Len(events) : events[j] \in SortableShapes /\ events[j].endTime # Str(T0000)
    /\ venues["v1"].address.k = "str"
    /\ venues["v2"].lat.k = "num"
    /\ callsLeft = 2
    /\ viewsLeft = 0

\* a recompute and day views, in any order, over days of sortable events
\* that differ from one another
InitView ==
    /\ InitStore
    /\ \A j \in 1..Len(events) : events[j] \in SortableShapes
    /\ \A j, k \in 1..Len(events) : events[j] = events[k] => j = k
    /\ venues["v1"].lat.k = "num"
    /\ venues["v2"].lat.k = "num"
    /\ callsLeft = 1
    /\ viewsLeft = MaxViews

\* ------------------------------------------------------------------------
\* recalc_logistics
\* ------------------------------------------------------------------------
\* the request leaves the handler: the except clauses pick the status
Finished(c, exc, cause) ==
    [c EXCEPT !.pc = "done", !.exc = exc, !.cause = cause, !.status = StatusOf(exc),
              !.updated = IF exc = "none" THEN c.updates ELSE 0,
              !.eventsCount = IF exc = "none" THEN Len(c.evs) ELSE 0]

Summary(c, store) ==
    [status |-> c.status, exc |-> c.exc, cause |-> c.cause, updated |-> c.updated,
     eventsCount |-> c.eventsCount, rejected |-> c.rejected, date |-> c.date, evs |-> c.evs, vmap |-> c.vmap,
     reached |-> c.i,
     writes |-> c.writes, routes |-> c.routes, fetched |-> c.fetched,
     pre |-> c.pre, post |-> store]

\* cause names where the exception came from: "auth" (the credential),
\* "data" (a stored value that does not convert), "routing" (the routing
\* client), "none" (normal return)
Leave(p, c, exc, cause, store) ==
    LET f == Finished(c, exc, cause) IN
    /\ call' = [call EXCEPT ![p] = f]
    /\ done' = Append(done, Summary(f, store))

\* lines 25-27: the credential is verified
StartCall(p) ==
    /\ call[p].pc \in {"idle", "done"}
    /\ callsLeft > 0
    /\ callsLeft' = callsLeft - 1
    /\ \E authorization \in Headers, lib \in LibErrors, d \in ReqDates :
          LET exc == verify_bearer_token(authorization, lib)
              c == [IdleCall EXCEPT !.rejected = TokenRejected(authorization),
                                    !.date = d, !.pre = events]
          IN  IF exc # "none"
              THEN Leave(p, c, exc, "auth", events)
              ELSE /\ call' = [call EXCEPT ![p] = [c EXCEPT !.pc = "query"]]
                   /\ done' = done
    /\ UNCHANGED <<events, venues, now, view, viewsLeft>>
    /\ UNCHANGED <<unitVars, geoVars, fbVars>>

\* variant: the query runs over the events of every tenant
DayDocsAllTenants(store, d) ==
    LET ids == {j \in 1..Len(store) : store[j].date = d}
        F[k \in 0..Len(store)] ==
            IF k = 0 THEN <<>>
            ELSE IF k \in ids
                 THEN Append(F[k - 1], [id |-> k, startTime |-> store[k].startTime,
                                        endTime |-> store[k].endTime,
                                        order |-> store[k].order,
                                        venueId |-> store[k].venueId,
                                        logistics |-> store[k].logistics])
                 ELSE F[k - 1]
    IN  F[Len(store)]

\* the documents of the day in the tenant's collection, in document-id
\* order, each with its id
DayDocs(store, d) ==
    LET ids == {j \in 1..Len(store) : store[j].org = OrgId /\ store[j].date = d}
        F[k \in 0..Len(store)] ==
            IF k = 0 THEN <<>>
            ELSE IF k \in ids
                 THEN Append(F[k - 1], [id |-> k, startTime |-> store[k].startTime,
                                        endTime |-> store[k].endTime,
                                        order |-> store[k].order,
                                        venueId |-> store[k].venueId,
                                        logistics |-> store[k].logistics])
                 ELSE F[k - 1]
    IN  F[Len(store)]

\* variant: the venue of the last event is not collected
venue_ids_but_last(evs) == {evs[j].venueId : j \in 1..(Len(evs) - 1)} \ {"null"}

\* line 44: the distinct truthy venueId values of the day's events
venue_ids(evs) == {evs[j].venueId : j \in 1..Len(evs)} \ {"null"}

\* lines 33-44: query, sort, collect the venue ids to load
QueryEvents(p) ==
    /\ call[p].pc = "query"
    /\ LET c == call[p]
           sorted == SortEvents(DayDocs(events, c.date))
       IN  IF sorted.exc # "none"
           THEN Leave(p, c, sorted.exc, "data", events)
           ELSE /\ call' = [call EXCEPT ![p] =
                       [c EXCEPT !.pc = "preload", !.evs = sorted.val,
                                 !.toFetch = venue_ids(sorted.val)]]
                /\ done' = done
    /\ UNCHANGED <<events, venues, now, callsLeft, view, viewsLeft>>
    /\ UNCHANGED <<unitVars, geoVars, fbVars>>

\* lines 46-49: one venue document is read (the set is iterated in any order)
FetchVenue(p) ==
    /\ call[p].pc = "preload"
    /\ \E vid \in call[p].toFetch :
          call' = [call EXCEPT ![p].toFetch = @ \ {vid},
                               ![p].fetched[vid] = @ + 1,
                               ![p].vmap[vid] = IF venues[vid].exists THEN venues[vid] ELSE @]
    /\ UNCHANGED <<events, venues, now, callsLeft, done, view, viewsLeft>>
    /\ UNCHANGED <<unitVars, geoVars, fbVars>>

\* variant: the new dict is merged into the stored one, so a key the new
\* dict lacks survives
UpdateLogisticsMerged(store, id, rec) ==
    LET old == store[id].logistics IN
    [store EXCEPT ![id].logistics =
        IF old.present /\ rec.error = NoKey THEN [rec EXCEPT !.error = old.error] ELSE rec]

\* events_col.document(id).update({"logistics": rec}): the field is replaced
UpdateLogistics(store, id, rec) == [store EXCEPT ![id].logistics = rec]

\* variant: the fault is recorded on the event before the exception leaves
OnRouteFaultRecorded(store, id, ts) ==
    [store EXCEPT ![id].logistics = Logi(NoneNum, NoneNum, "null", ts, "routing failed")]

\* the routing client raised: the exception leaves the loop, nothing is written
OnRouteFault(store, id, ts) == store

\* lines 52-109: one iteration of the loop
ProcessEvent(p) ==
    /\ call[p].pc = "preload"
    /\ call[p].toFetch = {}
    /\ call[p].i <= Len(call[p].evs)
    /\ LET c == call[p]
           ev == c.evs[c.i]
           kind == Outcome(c.evs, c.i, c.vmap)
           nextRef == NextRef(c.evs, c.i)
           Write(cc, rec) ==
               /\ events' = UpdateLogistics(events, ev.id, rec)
               /\ now' = now + 1
               /\ call' = [call EXCEPT ![p] =
                     [cc EXCEPT !.i = c.i + 1, !.updates = NextUpdates(kind, c.updates),
                                !.writes = Append(c.writes, [id |-> ev.id, kind |-> kind,
                                                             rec |-> rec])]]
               /\ done' = done
       IN  CASE kind \in {"terminal", "missing", "ungeocoded"} ->
                  Write(c, Written(kind, nextRef, now))
             [] kind = "raise" ->
                  /\ Leave(p, c, OutcomeExc(c.evs, c.i, c.vmap), "data", events)
                  /\ UNCHANGED <<events, now>>
             [] kind = "route" ->
                  \E ans \in ProviderAnswers :
                     LET rq == RouteRequest(MapGet(c.vmap, ev.venueId), MapGet(c.vmap, nextRef))
                         r == compute_route_minutes_km(ans)
                         cc == [c EXCEPT !.routes = Append(@, [pos |-> c.i, origin |-> rq.origin,
                                                               dest |-> rq.dest, ans |-> ans])]
                     IN  IF r.exc # "none"
                         THEN /\ Leave(p, cc, r.exc, "routing", OnRouteFault(events, ev.id, now))
                              /\ events' = OnRouteFault(events, ev.id, now)
                              /\ now' = now
                         ELSE Write(cc, Logi(r.km, r.minutes, nextRef, now, NoKey))
    /\ UNCHANGED <<venues, callsLeft, view, viewsLeft>>
    /\ UNCHANGED <<unitVars, geoVars, fbVars>>

\* lines 111-112: the summary is returned
Return(p) ==
    /\ call[p].pc = "preload"
    /\ call[p].toFetch = {}
    /\ call[p].i > Len(call[p].evs)
    /\ Leave(p, call[p], "none", "none", events)
    /\ UNCHANGED <<events, venues, now, callsLeft, view, viewsLeft>>
    /\ UNCHANGED <<unitVars, geoVars, fbVars>>

\* ------------------------------------------------------------------------
\* day_logistics
\* ------------------------------------------------------------------------
NoAlert == [present |-> FALSE, window |-> 0, minutes |-> 0]

\* lines 65-73: the alert of the entry at position i (1-based)
AlertOf(evs, i) ==
    IF i >= Len(evs) THEN [exc |-> "none", alert |-> NoAlert]
    ELSE LET endp == parse_hhmm(Get(evs[i].endTime, Str(<<>>)))
             startp == parse_hhmm(Get(evs[i].startTime, Str(<<>>)))
             nextp == parse_hhmm(Get(evs[i + 1].startTime, Str(<<>>)))
         IN  IF endp.exc # "none" THEN [exc |-> endp.exc, alert |-> NoAlert]
             ELSE LET end_m == IF endp.val # 0 THEN endp.val ELSE startp.val + 60
                      window == Max(0, nextp.val - end_m)
                      minutes == evs[i].logistics.toNextMinutes
                  IN  [exc |-> "none",
                       alert |-> IF minutes # NoneNum /\ minutes > window
                                 THEN [present |-> TRUE, window |-> window, minutes |-> minutes]
                                 ELSE NoAlert]

\* variant: the minutes shown are those of the alert just derived
EntryFromAlert(ev, alert) ==
    [id |-> ev.id, startTime |-> ev.startTime, endTime |-> ev.endTime,
     venue |-> ev.venueId,
     toNext |-> [km |-> ev.logistics.toNextKm,
                 minutes |-> alert.minutes,
                 toNextVenueId |-> ev.logistics.toNextVenueId,
                 updatedAt |-> ev.logistics.toNextUpdatedAt,
                 error |-> ev.logistics.error],
     alert |-> alert]

\* lines 52-85: one entry of the response
Entry(ev, alert) ==
    [id |-> ev.id, startTime |-> ev.startTime, endTime |-> ev.endTime,
     venue |-> ev.venueId,
     toNext |-> [km |-> ev.logistics.toNextKm,
                 minutes |-> ev.logistics.toNextMinutes,
                 toNextVenueId |-> ev.logistics.toNextVenueId,
                 updatedAt |-> ev.logistics.toNextUpdatedAt,
                 error |-> ev.logistics.error],
     alert |-> alert]

\* the entries of positions 1..n, or the first exception met
RECURSIVE Entries(_, _)
Entries(evs, n) ==
    IF n = 0 THEN [exc |-> "none", val |-> <<>>]
    ELSE LET front == Entries(evs, n - 1)
             a == AlertOf(evs, n)
         IN  IF front.exc # "none" THEN front
             ELSE IF a.exc # "none" THEN [exc |-> a.exc, val |-> <<>>]
             ELSE [exc |-> "none", val |-> Append(front.val, Entry(evs[n], a.alert))]

\* variant: the view orders by start time only, ties in retrieval order
sort_day_by_start(evs) ==
    LET keys == KeysOf(evs)
        bad == {j \in 1..Len(evs) : keys[j].exc # "none"}
        starts == [j \in 1..Len(evs) |-> [exc |-> "none", val |-> <<keys[j].val[1], 0>>]]
    IN  IF bad # {}
        THEN [exc |-> keys[CHOOSE j \in bad : \A x \in bad : j <= x].exc, val |-> <<>>]
        ELSE LET perm == SortStable(Len(evs), starts)
             IN  [exc |-> "none", val |-> [j \in 1..Len(evs) |-> evs[perm[j]]]]

\* line 38: the view sorts with the key the recompute uses
sort_day(evs) == SortEvents(evs)

\* lines 15-88: what the handler answers once the credential is accepted
DayResponse(d, store) ==
    LET sorted == sort_day(DayDocs(store, d)) IN
    IF sorted.exc # "none" THEN [status |-> StatusOf(sorted.exc), events |-> <<>>]
    ELSE LET out == Entries(sorted.val, Len(sorted.val)) IN
         IF out.exc # "none" THEN [status |-> StatusOf(out.exc), events |-> <<>>]
         ELSE [status |-> 200, events |-> out.val]

\* the whole handler: it reads the store and answers
day_logistics(exc, response) ==
    IF exc # "none" THEN [status |-> StatusOf(exc), events |-> <<>>] ELSE response

DayView ==
    /\ viewsLeft > 0
    /\ viewsLeft' = viewsLeft - 1
    /\ \E d \in ReqDates :
          LET response == DayResponse(d, events) IN
          view' \in {day_logistics(verify_bearer_token(authorization, lib), response) :
                        authorization \in Headers, lib \in LibErrors}
    /\ UNCHANGED <<events, venues, call, now, callsLeft, done>>
    /\ UNCHANGED <<unitVars, geoVars, fbVars>>

Next ==
    \/ \E p \in Procs : StartCall(p)
    \/ \E p \in Procs : QueryEvents(p)
    \/ \E p \in Procs : FetchVenue(p)
    \/ \E p \in Procs : ProcessEvent(p)
    \/ \E p \in Procs : Return(p)

NextView ==
    \/ DayView
    \/ Next

Spec == Init /\ [][Next]_vars

SpecTwice == InitTwice /\ [][Next]_vars

SpecView == InitView /\ [][NextView]_vars

\* ------------------------------------------------------------------------
\* A recompute beside events of another tenant and of another date
\* ------------------------------------------------------------------------
FrameShapes ==
    { Event("d1", Str(T0900), Absent, Absent, "v1", OldLogistics),
      Event("d1", Str(T1010), Absent, Num(2), "v2", OldLogistics),
      Event("d1", Str(TBad), Absent, Absent, "v1", OldLogistics),
      Event("d2", Str(T0900), Absent, Absent, "v2", OldLogistics),
      [Event("d1", Str(T0900), Absent, Absent, "v2", OldLogistics) EXCEPT !.org = OtherOrg] }

InitFrame ==
    /\ events \in UNION {[1..n -> FrameShapes] : n \in 0..MaxEvents}
    /\ venues \in {f \in [VenueIds -> VenueShapes1 \cup VenueShapes2] :
                      /\ f["v1"] \in VenueShapes1
                      /\ f["v2"] \in VenueShapes2
                      /\ f["v3"] = NoVenue}
    /\ call = [p \in Procs |-> IdleCall]
    /\ now = 1
    /\ done = <<>>
    /\ view = NoView
    /\ callsLeft = 1
    /\ viewsLeft = 0
    /\ probe = NoProbe
    /\ geo = NoGeo
    /\ geosLeft = 0
    /\ InitedProcess

SpecFrame == InitFrame /\ [][Next]_vars

\* ------------------------------------------------------------------------
\* init_firebase (firebase_admin_client), entered by request threads
\* ------------------------------------------------------------------------
InitFb ==
    /\ events = <<>>
    /\ venues = EmptyMap
    /\ call = [p \in Procs |-> IdleCall]
    /\ now = 1
    /\ done = <<>>
    /\ view = NoView
    /\ callsLeft = 0
    /\ viewsLeft = 0
    /\ probe = NoProbe
    /\ geo = NoGeo
    /\ geosLeft = 0
    /\ app_inited = FALSE
    /\ initCalls = 0
    /\ initPc = [t \in Threads |-> Outside]

\* lines 25 and 30: get_db or verify_bearer_token calls init_firebase
EnterInit(t) ==
    /\ initPc[t].at = "out"
    /\ \E via \in {"get_db", "verify_bearer_token"} :
          initPc' = [initPc EXCEPT ![t] = [at |-> "l12", via |-> via]]
    /\ UNCHANGED <<app_inited, initCalls>>

\* lines 12-13: the flag is read; the function returns when it is set
TestFlag(t) ==
    /\ initPc[t].at = "l12"
    /\ initPc' = [initPc EXCEPT ![t] = IF app_inited THEN Outside ELSE [@ EXCEPT !.at = "l15"]]
    /\ UNCHANGED <<app_inited, initCalls>>

\* lines 15-19: the service account is read and the certificate built
LoadCredentials(t) ==
    /\ initPc[t].at = "l15"
    /\ initPc' = [initPc EXCEPT ![t].at = "l20"]
    /\ UNCHANGED <<app_inited, initCalls>>

\* line 20: initialize_app(cred) is invoked; when the default app exists
\* already the SDK may refuse, and the exception leaves init_firebase
InitializeApp(t) ==
    /\ initPc[t].at = "l20"
    /\ initCalls < MaxInits
    /\ initCalls' = initCalls + 1
    /\ \/ initPc' = [initPc EXCEPT ![t].at = "l21"]
       \/ /\ initCalls >= 1
          /\ initPc' = [initPc EXCEPT ![t] = Outside]
    /\ UNCHANGED app_inited

\* line 21: _app_inited = True
SetInited(t) ==
    /\ initPc[t].at = "l21"
    /\ app_inited' = TRUE
    /\ initPc' = [initPc EXCEPT ![t] = Outside]
    /\ UNCHANGED initCalls

NextFb ==
    /\ \E t \in Threads :
          \/ EnterInit(t)
          \/ TestFlag(t)
          \/ LoadCredentials(t)
          \/ InitializeApp(t)
          \/ SetInited(t)
    /\ UNCHANGED <<events, venues, call, now, callsLeft, done, view, viewsLeft, unitVars, geoVars>>

SpecFb == InitFb /\ [][NextFb]_vars

\* ------------------------------------------------------------------------
\* Two recalc_logistics requests served by two threads at once
\* ------------------------------------------------------------------------
RaceProcs == {1, 2}

\* the events of the raced day: pairwise different, all sortable
RaceShapes ==
    {e \in SortableShapes : e.startTime.k = "str"}

InitRace ==
    /\ events \in {d \in Days : /\ \A j \in 1..Len(d) : d[j] \in RaceShapes
                                /\ \A j, k \in 1..Len(d) : d[j] = d[k] => j = k}
    /\ venues \in {f \in [VenueIds -> VenueShapes1 \cup VenueShapes2] :
                      /\ f["v1"] \in VenueShapes1 /\ f["v1"].lat.k # "absent"
                      /\ f["v2"] \in VenueShapes2 /\ f["v2"].lat.k = "num"
                      /\ f["v3"] = NoVenue}
    /\ call = [p \in RaceProcs |-> IdleCall]
    /\ now = 1
    /\ done = <<>>
    /\ view = NoView
    /\ callsLeft = 2
    /\ viewsLeft = 0
    /\ probe = NoProbe
    /\ geo = NoGeo
    /\ geosLeft = 0
    /\ InitedProcess

\* the provider answered a leg the same way every time it was asked
Unchanging(log) ==
    \A a, b \in 1..Len(log) :
        (log[a].origin = log[b].origin /\ log[a].dest = log[b].dest) => log[a].ans = log[b].ans

\* each thread serves one request, each with an accepted credential; thread
\* 2 is the one that starts second; the provider's answers do not change
NextRace ==
    \/ \E p \in RaceProcs :
          /\ call[p].pc = "idle"
          /\ p = 1 \/ call[1].pc # "idle"
          /\ StartCall(p)
          /\ call'[p].pc = "query"
    \/ \E p \in RaceProcs : QueryEvents(p)
    \/ \E p \in RaceProcs : FetchVenue(p)
    \/ \E p \in RaceProcs :
          /\ ProcessEvent(p)
          /\ Unchanging(call'[1].routes \o call'[2].routes)
    \/ \E p \in RaceProcs : Return(p)

SpecRace == InitRace /\ [][NextRace]_vars

\* ------------------------------------------------------------------------
\* geocode (venues_router) and geocode_address (maps_service)
\* ------------------------------------------------------------------------
\* s.strip(): blanks are dropped at both ends
RECURSIVE Strip(_)
Strip(chars) ==
    IF chars = <<>> THEN <<>>
    ELSE IF Head(chars) = " " THEN Strip(Tail(chars))
    ELSE IF chars[Len(chars)] = " " THEN Strip(SubSeq(chars, 1, Len(chars) - 1))
    ELSE chars

\* variant: the address is tested without strip()
AddressOfUnstripped(v) ==
    LET address == IF Truthy(v.address) THEN v.address ELSE Str(<<>>) IN
    IF address.k # "str" THEN Raise("AttributeError")
    ELSE [exc |-> "none", val |-> address.s]

\* lines 24-25: address = v.get("address") or ""; address.strip() -- the
\* stripped text, or the class raised when the value has no strip()
AddressOf(v) ==
    LET address == IF Truthy(v.address) THEN v.address ELSE Str(<<>>) IN
    IF address.k # "str" THEN Raise("AttributeError")
    ELSE [exc |-> "none", val |-> Strip(address.s)]

\* answer of the Geocoding API: HTTP status, "status" field, number of
\* results, location of the first result
GeoAnswer(http, st, n, la, lo) == [http |-> http, status |-> st, results |-> n, lat |-> la, lng |-> lo]

GeoAnswers ==
    { GeoAnswer(500, "", 0, 0, 0),
      GeoAnswer(200, "ZERO_RESULTS", 0, 0, 0),
      GeoAnswer(200, "OK", 0, 0, 0),
      GeoAnswer(200, "OK", 1, 10, 20),
      GeoAnswer(200, "OK", 2, 30, 40) }

\* geocode_address: (lat, lng) of the first result, or the class raised
geocode_address(ans) ==
    IF ans.http >= 400 THEN [exc |-> "HTTPError", lat |-> 0, lng |-> 0]
    ELSE IF ans.status # "OK" \/ ans.results = 0 THEN [exc |-> "RuntimeError", lat |-> 0, lng |-> 0]
    ELSE [exc |-> "none", lat |-> ans.lat, lng |-> ans.lng]

\* venue_ref.update({"lat": lat, "lng": lng})
UpdateLatLng(store, vid, lat, lng) ==
    [store EXCEPT ![vid].lat = Num(lat), ![vid].lng = Num(lng)]

\* how the header fared: missing or malformed, rejected by the verifier, accepted
CredOf(authorization) ==
    IF TokenRejected(authorization) THEN "rejected"
    ELSE IF verify_bearer_token(authorization, "ValueError") = "none" THEN "accepted"
    ELSE "malformed"

\* the venue documents geocode is asked about
GeoVenueShapes ==
    { NoVenue,
      Venue(TRUE, Absent, Absent, Absent),
      Venue(TRUE, Null, Absent, Absent),
      Venue(TRUE, Str(<<>>), Absent, Absent),
      Venue(TRUE, Str(<<" ", " ">>), Absent, Absent),
      Venue(TRUE, Num(7), Absent, Absent),
      Venue(TRUE, Str(<<" ", "r", " ">>), Absent, Absent),
      Venue(TRUE, Str(<<"r">>), Num(1), Null) }

InitGeo ==
    /\ events = <<>>
    /\ venues \in {f \in [VenueIds -> GeoVenueShapes \cup VenueShapes2] :
                      /\ f["v1"] \in GeoVenueShapes
                      /\ f["v2"] \in VenueShapes2
                      /\ f["v3"] = NoVenue}
    /\ call = [p \in Procs |-> IdleCall]
    /\ now = 1
    /\ done = <<>>
    /\ view = NoView
    /\ callsLeft = 0
    /\ viewsLeft = 0
    /\ probe = NoProbe
    /\ geo = NoGeo
    /\ geosLeft = MaxGeos
    /\ InitedProcess

\* venues_router.geocode, lines 12-40: the whole request
Geocode ==
    /\ geosLeft > 0
    /\ geosLeft' = geosLeft - 1
    /\ \E authorization \in Headers, lib \in LibErrors, vid \in VenueIds, ans \in GeoAnswers :
          LET exc == verify_bearer_token(authorization, lib)
              r == [NoGeo EXCEPT !.cred = CredOf(authorization), !.venueId = vid, !.pre = venues]
              address == AddressOf(venues[vid])
              found == geocode_address(ans)
              Answered(st, asked, store) ==
                  /\ venues' = store
                  /\ geo' = [r EXCEPT !.status = st, !.asked = asked, !.post = store,
                                      !.lat = IF st = 200 THEN found.lat ELSE NoneNum,
                                      !.lng = IF st = 200 THEN found.lng ELSE NoneNum]
          IN  IF exc # "none" THEN Answered(StatusOf(exc), FALSE, venues)
              ELSE IF ~venues[vid].exists THEN Answered(404, FALSE, venues)
              ELSE IF address.exc # "none" THEN Answered(StatusOf(address.exc), FALSE, venues)
              ELSE IF address.val = <<>> THEN Answered(400, FALSE, venues)
              ELSE IF found.exc # "none" THEN Answered(StatusOf(found.exc), TRUE, venues)
              ELSE Answered(200, TRUE, UpdateLatLng(venues, vid, found.lat, found.lng))
    /\ UNCHANGED <<events, call, now, callsLeft, done, view, viewsLeft, unitVars, fbVars>>

SpecGeo == InitGeo /\ [][Geocode]_vars

\* ------------------------------------------------------------------------
\* The conversions on their own
\* ------------------------------------------------------------------------
DigitChar == [i \in 0..9 |-> CHOOSE c \in Digits : DigitVal[c] = i]

\* the decimal numeral of n, as the provider writes a duration ("123s")
RECURSIVE Numeral(_)
Numeral(n) ==
    IF n < 10 THEN <<DigitChar[n]>> ELSE Append(Numeral(n \div 10), DigitChar[n % 10])

Alphabet == {"0", "3", "9", ":", "a"}

\* the texts handed to the time parser
Texts == UNION {[1..k -> Alphabet] : k \in 0..MaxLen} \cup {<<"2", "3", ":", "5", "9">>}

\* leg lengths in metres
Distances == {0, 4, 6, 1234, 1236, 9999, 10000, 12346}

Durations == 0..MaxSeconds \cup {900}

InitUnits ==
    /\ events = <<>>
    /\ venues = EmptyMap
    /\ call = [p \in Procs |-> IdleCall]
    /\ now = 1
    /\ done = <<>>
    /\ view = NoView
    /\ callsLeft = 0
    /\ viewsLeft = 0
    /\ probe = NoProbe
    /\ geo = NoGeo
    /\ geosLeft = 0
    /\ InitedProcess

\* the routing client converts one answer of the provider
RouteProbe ==
    /\ probe.op = "none"
    /\ \E seconds \in Durations, meters \in Distances :
          LET r == compute_route_minutes_km(Answer(200, 1, meters, Append(Numeral(seconds), "s")))
          IN  probe' = [NoProbe EXCEPT !.op = "route", !.seconds = seconds, !.meters = meters,
                                       !.exc = r.exc, !.minutes = r.minutes, !.km = r.km]
    /\ UNCHANGED <<events, venues, call, now, callsLeft, done, view, viewsLeft, geoVars, fbVars>>

\* the time parser is applied to None or to one text
ParseProbe ==
    /\ probe.op = "none"
    /\ \E v \in {Null} \cup {Str(t) : t \in Texts} :
          LET r == parse_hhmm(v)
          IN  probe' = [NoProbe EXCEPT !.op = "parse", !.text = v, !.exc = r.exc, !.val = r.val]
    /\ UNCHANGED <<events, venues, call, now, callsLeft, done, view, viewsLeft, geoVars, fbVars>>

NextUnits ==
    \/ RouteProbe
    \/ ParseProbe

SpecUnits == InitUnits /\ [][NextUnits]_vars

\* ------------------------------------------------------------------------
\* Properties of recalc_logistics
\* ------------------------------------------------------------------------
DoneCalls == {done[k] : k \in 1..Len(done)}

\* the four shapes of a written logistics dict
IsTerminalRec(r) ==
    /\ r.present /\ r.toNextKm = NoneNum /\ r.toNextMinutes = NoneNum
    /\ r.toNextVenueId = "null" /\ r.toNextUpdatedAt >= 1 /\ r.error = NoKey

IsMissingRec(r) ==
    /\ r.present /\ r.toNextKm = NoneNum /\ r.toNextMinutes = NoneNum
    /\ r.toNextUpdatedAt >= 1 /\ r.error = ErrVenueNotFound

IsUngeocodedRec(r) ==
    /\ r.present /\ r.toNextKm = NoneNum /\ r.toNextMinutes = NoneNum
    /\ r.toNextUpdatedAt >= 1 /\ r.error = ErrVenueNoLatLng

IsComputedRec(r) ==
    /\ r.present /\ r.toNextKm # NoneNum /\ r.toNextMinutes # NoneNum
    /\ r.toNextUpdatedAt >= 1 /\ r.error = NoKey

OutcomeCount(r) ==
    (IF IsTerminalRec(r) THEN 1 ELSE 0) + (IF IsMissingRec(r) THEN 1 ELSE 0)
    + (IF IsUngeocodedRec(r) THEN 1 ELSE 0) + (IF IsComputedRec(r) THEN 1 ELSE 0)

\* the document ids of the day the call d was asked for
DayIds(d) == {j \in 1..Len(d.pre) : d.pre[j].org = OrgId /\ d.pre[j].date = d.date}

\* every event of the day was written once, with one outcome, and counted
AllWrittenOnce(d) ==
    /\ Len(d.writes) = Cardinality(DayIds(d))
    /\ \A id \in DayIds(d) :
          Cardinality({j \in 1..Len(d.writes) : d.writes[j].id = id}) = 1
    /\ \A j \in 1..Len(d.writes) : OutcomeCount(d.writes[j].rec) = 1
    /\ d.status = 200
    /\ d.updated = Cardinality(DayIds(d))
    /\ d.eventsCount = Cardinality(DayIds(d))

\* C1 as stated: in an authenticated call in which no routing call (and no
\* store call) raises, every event of the day gets exactly one write with one
\* of the four outcomes and updated = eventsCount.
C1_AsStated ==
    \A d \in DoneCalls : d.cause \notin {"auth", "routing"} => AllWrittenOnce(d)

\* C1 amended: the same, for calls in which, besides, every startTime, order
\* and coordinate the call converts is numeric (the call returns normally).
C1_EveryEventWrittenOnce ==
    \A d \in DoneCalls : d.cause \notin {"auth", "routing", "data"} => AllWrittenOnce(d)

\* a completed call over three events with a missing-venue and an
\* ungeocoded-venue outcome before the terminal one
C1_Witness ==
    \E d \in DoneCalls :
        /\ d.cause = "none" /\ Len(d.writes) = 3
        /\ \E a, b \in 1..2 : d.writes[a].kind = "missing" /\ d.writes[b].kind = "ungeocoded"
        /\ d.updated = 3

\* C2: when the routing client raises at position i, positions before i hold
\* what this call wrote, positions from i on hold what they held before the
\* call, and the failing routing call is the last one.
C2_RoutingFaultAborts ==
    \A d \in DoneCalls : d.cause = "routing" =>
        /\ d.status # 200
        /\ Len(d.writes) = d.reached - 1
        /\ \A j \in 1..(d.reached - 1) :
              /\ d.writes[j].id = d.evs[j].id
              /\ d.writes[j].rec.toNextUpdatedAt >= 1
              /\ d.post[d.evs[j].id].logistics = d.writes[j].rec
        /\ \A j \in d.reached..Len(d.evs) :
              d.post[d.evs[j].id].logistics = d.pre[d.evs[j].id].logistics
        /\ d.routes # <<>>
        /\ d.routes[Len(d.routes)].pos = d.reached
        /\ \A k \in 1..Len(d.routes) : d.routes[k].pos <= d.reached

\* the routing client raised at the second of three events
C2_Witness ==
    \E d \in DoneCalls :
        d.cause = "routing" /\ d.reached = 2 /\ Len(d.evs) = 3 /\ Len(d.writes) = 1

\* a venue reference that is no key of the preloaded map
Unresolved(vmap, ref) == ref \notin VenueIds \/ ~vmap[ref].exists

RoutedAt(d, j) == {k \in 1..Len(d.routes) : d.routes[k].pos = j}

\* C5: a non-terminal event whose own or next venue reference does not
\* resolve is written with null km and minutes and the venue-not-found
\* error, and no routing call is made for it.
C5_MissingVenue ==
    \A d \in DoneCalls : \A j \in 1..Len(d.writes) :
        (j < Len(d.evs) /\ (Unresolved(d.vmap, d.evs[j].venueId)
                              \/ Unresolved(d.vmap, d.evs[j + 1].venueId))) =>
            /\ d.writes[j].id = d.evs[j].id
            /\ d.writes[j].rec.toNextKm = NoneNum
            /\ d.writes[j].rec.toNextMinutes = NoneNum
            /\ d.writes[j].rec.error = ErrVenueNotFound
            /\ RoutedAt(d, j) = {}

\* the current venue resolves and the next event has no venue reference
C5_Witness ==
    \E d \in DoneCalls : \E j \in 1..Len(d.writes) :
        /\ j < Len(d.evs)
        /\ ~Unresolved(d.vmap, d.evs[j].venueId)
        /\ d.evs[j + 1].venueId = "null"
        /\ d.writes[j].rec.error = ErrVenueNotFound

\* C6 as stated: when both references resolve to stored venue documents and
\* one of them lacks lat or lng (a document without fields included), the
\* event is written as Ungeocoded venue and not routed.
C6_AsStated ==
    \A d \in DoneCalls : \A j \in 1..Len(d.writes) :
        (/\ j < Len(d.evs)
         /\ ~Unresolved(d.vmap, d.evs[j].venueId)
         /\ ~Unresolved(d.vmap, d.evs[j + 1].venueId)
         /\ (NoCoords(d.vmap[d.evs[j].venueId]) \/ NoCoords(d.vmap[d.evs[j + 1].venueId]))) =>
            /\ d.writes[j].rec.toNextKm = NoneNum
            /\ d.writes[j].rec.toNextMinutes = NoneNum
            /\ d.writes[j].rec.toNextVenueId = d.evs[j + 1].venueId
            /\ d.writes[j].rec.error = ErrVenueNoLatLng
            /\ RoutedAt(d, j) = {}

\* the loop entered position j of a finished call
Entered(d, j) == j < Len(d.evs) /\ j <= d.reached

HasLatLng(v) == v.exists /\ ~IsNone(v.lat) /\ ~IsNone(v.lng)

BothHaveLatLng(d, j) ==
    /\ ~Unresolved(d.vmap, d.evs[j].venueId)
    /\ ~Unresolved(d.vmap, d.evs[j + 1].venueId)
    /\ HasLatLng(d.vmap[d.evs[j].venueId])
    /\ HasLatLng(d.vmap[d.evs[j + 1].venueId])

\* one routing call from the current to the next venue; its result is written
RoutedOnce(d, j) ==
    LET cur == d.vmap[d.evs[j].venueId]
        nxt == d.vmap[d.evs[j + 1].venueId]
    IN  /\ Cardinality(RoutedAt(d, j)) = 1
        /\ \A k \in RoutedAt(d, j) :
              /\ d.routes[k].origin = <<IntOf(cur.lat).val, IntOf(cur.lng).val>>
              /\ d.routes[k].dest = <<IntOf(nxt.lat).val, IntOf(nxt.lng).val>>
              /\ compute_route_minutes_km(d.routes[k].ans).exc = "none" =>
                    /\ j <= Len(d.writes)
                    /\ d.writes[j].id = d.evs[j].id
                    /\ d.writes[j].rec.toNextKm = compute_route_minutes_km(d.routes[k].ans).km
                    /\ d.writes[j].rec.toNextMinutes
                          = compute_route_minutes_km(d.routes[k].ans).minutes
                    /\ d.writes[j].rec.error = NoKey
                    /\ d.post[d.evs[j].id].logistics = d.writes[j].rec

\* C7 as stated: both venues resolve and have lat and lng => one routing
\* call from the current to the next coordinates, result written, no error.
C7_AsStated ==
    \A d \in DoneCalls : \A j \in 1..Len(d.evs) :
        (Entered(d, j) /\ BothHaveLatLng(d, j)) => RoutedOnce(d, j)

\* C7 amended: the same when the four coordinates convert to numbers.
C7_RoutedOnce ==
    \A d \in DoneCalls : \A j \in 1..Len(d.evs) :
        (/\ Entered(d, j) /\ BothHaveLatLng(d, j)
         /\ Coords(d.vmap[d.evs[j].venueId]).exc = "none"
         /\ Coords(d.vmap[d.evs[j + 1].venueId]).exc = "none") => RoutedOnce(d, j)

\* a leg between two different geocoded venues was routed and written
C7_Witness ==
    \E d \in DoneCalls : \E j \in 1..Len(d.writes) :
        /\ j < Len(d.evs) /\ BothHaveLatLng(d, j)
        /\ d.evs[j].venueId # d.evs[j + 1].venueId
        /\ d.writes[j].kind = "route"
        /\ d.writes[j].rec.toNextMinutes = 15
        /\ d.writes[j].rec.toNextKm = 1000

\* C8: after a completed recompute every non-terminal event records the
\* venue reference of its successor, resolved or not.
C8_ToNextVenueId ==
    \A d \in DoneCalls : d.cause = "none" =>
        \A j \in 1..(Len(d.evs) - 1) :
            d.post[d.evs[j].id].logistics.toNextVenueId = d.pre[d.evs[j + 1].id].venueId

\* a completed recompute in which a successor's reference is unresolved and
\* differs from the event's own
C8_Witness ==
    \E d \in DoneCalls :
        /\ d.cause = "none"
        /\ \E j \in 1..(Len(d.evs) - 1) :
              /\ d.evs[j + 1].venueId # "null"
              /\ Unresolved(d.vmap, d.evs[j + 1].venueId)
              /\ d.evs[j].venueId # d.evs[j + 1].venueId
              /\ d.post[d.evs[j].id].logistics.toNextVenueId = d.evs[j + 1].venueId

\* C10 as stated: 401 exactly for a missing, malformed or rejected
\* credential, 500 for every other fault, 200 otherwise.  (The class the
\* external verifier raises for a token it rejects is not fixed by the
\* source, so the status of that one case is left open here.)
C10_AsStated ==
    \A d \in DoneCalls :
        /\ d.status = 401 => d.cause = "auth"
        /\ (d.cause = "auth" /\ ~d.rejected) => d.status = 401
        /\ d.cause \in {"routing", "data"} => d.status = 500
        /\ d.status = 200 <=> d.cause = "none"

\* ------------------------------------------------------------------------
\* Recomputing twice
\* ------------------------------------------------------------------------
\* the provider gave the same answer whenever both runs asked the same leg
SameAnswers(r1, r2) ==
    \A a \in 1..Len(r1), b \in 1..Len(r2) :
        (r1[a].origin = r2[b].origin /\ r1[a].dest = r2[b].dest) => r1[a].ans = r2[b].ans

LogisticsOf(store) == [j \in 1..Len(store) |-> StripTs(store[j].logistics)]

\* C3: two recomputes in succession over unchanged events, venues and
\* provider answers leave every event with the same logistics, the
\* timestamp aside.
C3_Idempotent ==
    \A k \in 2..Len(done) :
        (/\ done[k - 1].cause # "auth" /\ done[k].cause # "auth"
         /\ done[k].date = done[k - 1].date
         /\ done[k].pre = done[k - 1].post
         /\ SameAnswers(done[k - 1].routes, done[k].routes)) =>
            LogisticsOf(done[k].post) = LogisticsOf(done[k - 1].post)

\* two completed recomputes that each routed a leg; the second rewrote the
\* records with later timestamps
C3_Witness ==
    \E k \in 2..Len(done) :
        /\ done[k - 1].cause = "none" /\ done[k].cause = "none"
        /\ SameAnswers(done[k - 1].routes, done[k].routes)
        /\ \E j \in 1..Len(done[k].writes) : done[k].writes[j].kind = "route"
        /\ \E j \in 1..Len(done[k].writes) : done[k].writes[j].kind \in {"missing", "ungeocoded"}
        /\ done[k].post # done[k - 1].post

\* ------------------------------------------------------------------------
\* Properties of the day view
\* ------------------------------------------------------------------------
\* C4: whatever is written to the last event of the order is the terminal
\* dict (all null, a timestamp, no error key); a completed recompute of a
\* one-event day makes one write and no routing call, and the day view of a
\* one-event day carries no alert.
C4_TerminalEvent ==
    /\ \A d \in DoneCalls :
          /\ \A j \in 1..Len(d.writes) :
                d.writes[j].id = d.evs[Len(d.evs)].id => IsTerminalRec(d.writes[j].rec)
          /\ (d.cause = "none" /\ Len(d.evs) >= 1) =>
                IsTerminalRec(d.post[d.evs[Len(d.evs)].id].logistics)
          /\ (d.cause = "none" /\ Len(d.evs) = 1) =>
                /\ Len(d.writes) = 1 /\ d.updated = 1
                /\ d.routes = <<>>
    /\ (view.status = 200 /\ Len(view.events) = 1) => ~view.events[1].alert.present

\* a one-event day was recomputed and then viewed
C4_Witness ==
    /\ \E d \in DoneCalls : d.cause = "none" /\ Len(d.evs) = 1 /\ Len(d.writes) = 1
    /\ view.status = 200 /\ Len(view.events) = 1
    /\ view.events[1].toNext.updatedAt >= 1

\* C9 as stated: the alert of a non-terminal entry is present iff the stored
\* minutes exceed max(0, nextStart - currentEnd), currentEnd being the parsed
\* endTime whenever endTime is present and currentStart + 60 only when it is
\* absent; the last entry and entries with null minutes have no alert.
C9_AsStated ==
    view.status = 200 =>
        \A j \in 1..Len(view.events) :
            LET e == view.events[j] IN
            IF j = Len(view.events) \/ e.toNext.minutes = NoneNum
            THEN ~e.alert.present
            ELSE LET currentEnd ==
                         IF ~IsNone(e.endTime) THEN parse_hhmm(e.endTime).val
                         ELSE parse_hhmm(Get(e.startTime, Str(<<>>))).val + 60
                     nextStart ==
                         parse_hhmm(Get(view.events[j + 1].startTime, Str(<<>>))).val
                 IN  e.alert.present <=> e.toNext.minutes > Max(0, nextStart - currentEnd)

\* the toNext of a view entry repeats the logistics stored for its event
FromStored(e, store) ==
    LET l == store[e.id].logistics IN
    /\ e.toNext.km = l.toNextKm
    /\ e.toNext.minutes = l.toNextMinutes
    /\ e.toNext.toNextVenueId = l.toNextVenueId
    /\ e.toNext.updatedAt = l.toNextUpdatedAt
    /\ e.toNext.error = l.error
    /\ e.alert.present => e.alert.minutes = l.toNextMinutes

\* C11: a day view writes no event and no venue and makes no routing call
\* (the routing log of every request is as before), and every toNext and
\* alert it returns comes from the logistics stored when it ran.
C11_ViewReadOnly ==
    [][viewsLeft' # viewsLeft =>
          /\ UNCHANGED <<events, venues, call, now, done>>
          /\ view'.status = 200 =>
                /\ Len(view'.events) = Len(DayDocs(events, "d1"))
                /\ \A j \in 1..Len(view'.events) : FromStored(view'.events[j], events)]_vars

\* a day was viewed after a recompute stored a leg longer than the window
C11_Witness ==
    /\ view.status = 200 /\ Len(view.events) >= 2
    /\ view.events[1].alert.present
    /\ view.events[1].toNext.updatedAt >= 1
    /\ view.events[1].toNext.minutes = 15

\* ------------------------------------------------------------------------
\* Ordering of the day
\* ------------------------------------------------------------------------
\* the key as the ordering policy states it: the order field counts as
\* 999999 when it is absent or does not convert to a number
PolicyKey(e) ==
    LET o == IntOf(Get(e.order, Num(999999))) IN
    <<parse_hhmm(Get(e.startTime, Str(<<>>))).val, IF o.exc = "none" THEN o.val ELSE 999999>>

StartsParse(docs) ==
    \A j \in 1..Len(docs) : parse_hhmm(Get(docs[j].startTime, Str(<<>>))).exc = "none"

\* evs holds the documents docs in ascending key order, equal keys in
\* retrieval (document id) order
OrderedByPolicy(evs, docs) ==
    /\ Len(evs) = Len(docs)
    /\ {evs[j].id : j \in 1..Len(evs)} = {docs[j].id : j \in 1..Len(docs)}
    /\ \A j, k \in 1..Len(evs) :
          j < k => /\ KeyLE(PolicyKey(evs[j]), PolicyKey(evs[k]))
                   /\ PolicyKey(evs[j]) = PolicyKey(evs[k]) => evs[j].id < evs[k].id

\* C12 as stated: whenever the credential is accepted and every startTime
\* of the day parses, the request works on the day's events in ascending
\* (parse_hhmm(startTime), order) order, order counting as 999999 when it is
\* absent or not coercible to a number, equal keys in retrieval order.
C12_AsStated ==
    \A d \in DoneCalls :
        (d.cause # "auth" /\ StartsParse(DayDocs(d.pre, d.date))) =>
            OrderedByPolicy(d.evs, DayDocs(d.pre, d.date))

\* ------------------------------------------------------------------------
\* Properties of the conversions
\* ------------------------------------------------------------------------
\* C13: a duration of s >= 0 seconds gives the minute count nearest to s/60,
\* raised to 1 when that is 0, so always >= 1 ("10s" gives 1, "900s" gives
\* 15); a distance in metres gives the nearest hundredth of a kilometre
\* (10000 m gives 10.0, i.e. 1000 hundredths).
C13_MinutesAndKm ==
    probe.op = "route" =>
        /\ probe.exc = "none"
        /\ probe.minutes >= 1
        /\ \E n \in 0..(probe.seconds \div 60 + 1) :
              /\ 2 * n * 60 >= 2 * probe.seconds - 60
              /\ 2 * n * 60 <= 2 * probe.seconds + 60
              /\ probe.minutes = Max(1, n)
        /\ probe.seconds = 10 => probe.minutes = 1
        /\ probe.seconds = 900 => probe.minutes = 15
        /\ 10 * probe.km - probe.meters \in -5..5
        /\ probe.meters = 10000 => probe.km = 1000

\* a leg well past the minute floor was converted
C13_Witness ==
    probe.op = "route" /\ probe.seconds = 119 /\ probe.minutes = 2 /\ probe.meters = 1236 /\ probe.km = 124

IsHHMM(t) ==
    \/ Len(t) = 5 /\ t[3] = ":" /\ {t[1], t[2], t[4], t[5]} \subseteq Digits
    \/ Len(t) = 4 /\ t[2] = ":" /\ {t[1], t[3], t[4]} \subseteq Digits

\* C15: None, the empty string and every string that does not split into
\* exactly two parts at ":" (no colon, one segment, three segments) parse to
\* 0 without raising; "H:MM" and "HH:MM" parse to hours * 60 + minutes
\* ("09:30" gives 570, "23:59" gives 1439).
C15_ParseTotal ==
    probe.op = "parse" =>
        LET t == probe.text.s
            colons == Cardinality({j \in 1..Len(t) : t[j] = ":"})
        IN  /\ (probe.text.k # "str" \/ colons # 1) => probe.exc = "none" /\ probe.val = 0
            /\ (IsHHMM(t) /\ Len(t) = 5) =>
                  /\ probe.exc = "none"
                  /\ probe.val = 600 * DigitVal[t[1]] + 60 * DigitVal[t[2]]
                                    + 10 * DigitVal[t[4]] + DigitVal[t[5]]
            /\ (IsHHMM(t) /\ Len(t) = 4) =>
                  /\ probe.exc = "none"
                  /\ probe.val = 60 * DigitVal[t[1]] + 10 * DigitVal[t[3]] + DigitVal[t[4]]
            /\ t = <<"0", "9", ":", "3", "0">> => probe.val = 570
            /\ t = <<"2", "3", ":", "5", "9">> => probe.val = 1439

\* "09:30" was parsed
C15_Witness ==
    probe.op = "parse" /\ probe.text = Str(<<"0", "9", ":", "3", "0">>) /\ probe.val = 570

\* ------------------------------------------------------------------------
\* Properties of geocode
\* ------------------------------------------------------------------------
\* the venue has no address text: no key, None, "" or blanks only
NoAddressText(v) ==
    \/ v.address.k \in {"absent", "null"}
    \/ v.address.k = "str" /\ \A j \in 1..Len(v.address.s) : v.address.s[j] = " "

AnswerIn(log, rq) ==
    LET ks == {k \in 1..Len(log) : log[k].origin = rq.origin /\ log[k].dest = rq.dest}
    IN  IF ks = {} THEN Answer(403, 0, 0, <<>>) ELSE log[CHOOSE k \in ks : TRUE].ans

\* the store a recompute leaves when it runs its loop from position i with
\* no other request beside it
RECURSIVE AloneFrom(_, _, _, _, _)
AloneFrom(store, evs, vmap, i, log) ==
    IF i > Len(evs) THEN store
    ELSE LET kind == Outcome(evs, i, vmap)
             nextRef == NextRef(evs, i)
             r == compute_route_minutes_km(
                      AnswerIn(log, RouteRequest(MapGet(vmap, evs[i].venueId), MapGet(vmap, nextRef))))
         IN  CASE kind \in {"terminal", "missing", "ungeocoded"} ->
                    AloneFrom(UpdateLogistics(store, evs[i].id, Written(kind, nextRef, 1)),
                              evs, vmap, i + 1, log)
               [] kind = "raise" -> store
               [] kind = "route" ->
                    IF r.exc # "none" THEN store
                    ELSE AloneFrom(UpdateLogistics(store, evs[i].id,
                                                   Logi(r.km, r.minutes, nextRef, 1, NoKey)),
                                   evs, vmap, i + 1, log)

RunAlone(store, vstore, d, log) ==
    LET sorted == SortEvents(DayDocs(store, d))
        refs == {sorted.val[j].venueId : j \in 1..Len(sorted.val)}
        vmap == [v \in VenueIds |-> IF v \in refs /\ vstore[v].exists THEN vstore[v] ELSE NoVenue]
    IN  IF sorted.exc # "none" THEN store ELSE AloneFrom(store, sorted.val, vmap, 1, log)

\* C16: once two requests for the same day, interleaved in any way, have
\* both finished, with the provider answering each leg the same way every
\* time, every event's logistics are, the timestamp aside, those a single
\* recompute running alone leaves (started from the store either request
\* found).
C16_RaceConverges ==
    (/\ Len(done) = 2
     /\ done[1].cause # "auth" /\ done[2].cause # "auth"
     /\ Unchanging(done[1].routes \o done[2].routes)) =>
        \A k \in 1..2 :
            LogisticsOf(events)
              = LogisticsOf(RunAlone(done[k].pre, venues, "d1", done[1].routes \o done[2].routes))

\* both requests returned normally after routing a leg; the one that
\* finished first had started over a store the other had already written
\* to and left behind a record the other wrote
C16_Witness ==
    /\ Len(done) = 2
    /\ done[1].cause = "none" /\ done[2].cause = "none"
    /\ Unchanging(done[1].routes \o done[2].routes)
    /\ Len(done[1].routes) >= 1
    /\ \E j \in 1..Len(done[1].pre) : done[1].pre[j].logistics.toNextUpdatedAt >= 1
    /\ \E j \in 1..Len(done[1].writes) :
          done[1].post[done[1].writes[j].id].logistics # done[1].writes[j].rec

\* ------------------------------------------------------------------------
\* Replacement of the logistics sub-record
\* ------------------------------------------------------------------------
\* C17: every event a recompute has written holds exactly the dict that
\* recompute built for it, with nothing of the record it had before: a fresh
\* timestamp, and no error key when the outcome is Computed or Terminal;
\* after a completed recompute this covers every event of the day.
C17_WholeRecord ==
    \A d \in DoneCalls :
        /\ \A j \in 1..Len(d.writes) :
              LET l == d.post[d.writes[j].id].logistics IN
              /\ l = d.writes[j].rec
              /\ l.present /\ l.toNextUpdatedAt >= 1
              /\ d.writes[j].kind \in {"route", "terminal"} => l.error = NoKey
              /\ d.writes[j].kind = "terminal" =>
                    l.toNextKm = NoneNum /\ l.toNextMinutes = NoneNum /\ l.toNextVenueId = "null"
              /\ l.error # OldLogistics.error
        /\ d.cause = "none" =>
              {d.writes[j].id : j \in 1..Len(d.writes)} = {d.evs[j].id : j \in 1..Len(d.evs)}

\* a completed recompute routed a leg of an event that held an error key,
\* and ended on an event that held one too
C17_Witness ==
    \E d \in DoneCalls :
        /\ d.cause = "none" /\ Len(d.writes) >= 2
        /\ \E j \in 1..Len(d.writes) :
              /\ d.writes[j].kind = "route"
              /\ d.pre[d.writes[j].id].logistics.error = "stale"
              /\ d.post[d.writes[j].id].logistics.error = NoKey
        /\ d.pre[d.writes[Len(d.writes)].id].logistics.error = "stale"

\* ------------------------------------------------------------------------
\* Preloading of venues
\* ------------------------------------------------------------------------
\* the request has started its loop: it wrote, asked a route or moved on
InLoop(c) == c.writes # <<>> \/ c.routes # <<>> \/ c.i > 1

\* the reference is a key of the preloaded map
Loaded(c, ref) == ref \in VenueIds /\ c.vmap[ref].exists

\* C18: a request never reads a venue twice nor one that no event of the day
\* refers to; from its first write or routing call on, every distinct
\* non-null reference of the day has been read exactly once (so no read
\* happens during the loop); and an event whose own or next reference is not
\* in the map is written as venue not found.
C18_PreloadOnce ==
    \A p \in DOMAIN call :
        LET c == call[p]
            refs == {c.evs[j].venueId : j \in 1..Len(c.evs)} \ {"null"}
        IN  /\ \A v \in VenueIds : c.fetched[v] <= 1
            /\ \A v \in VenueIds \ refs : c.fetched[v] = 0
            /\ InLoop(c) => \A v \in refs : c.fetched[v] = 1
            /\ (c.pc = "done" /\ c.cause = "none") => \A v \in refs : c.fetched[v] = 1
            /\ \A j \in 1..Len(c.writes) :
                  (j < Len(c.evs) /\ (~Loaded(c, c.evs[j].venueId) \/ ~Loaded(c, c.evs[j + 1].venueId)))
                      => c.writes[j].kind = "missing"

\* a request in its loop has written an event after reading two venues, one
\* of them referred to by two events
C18_Witness ==
    \E p \in DOMAIN call :
        LET c == call[p] IN
        /\ c.pc = "preload" /\ Len(c.writes) >= 1 /\ Len(c.evs) = 3
        /\ c.fetched["v1"] = 1 /\ c.fetched["v2"] = 1
        /\ Cardinality({j \in 1..Len(c.evs) : c.evs[j].venueId = "v1"}) = 2

\* ------------------------------------------------------------------------
\* Initialisation of the SDK
\* ------------------------------------------------------------------------
\* C19 as stated: however the threads' calls to init_firebase interleave,
\* initialize_app is invoked at most once in the process.
C19_AsStated == initCalls <= 1

\* ------------------------------------------------------------------------
\* What a recompute leaves alone
\* ------------------------------------------------------------------------
\* C20: no step of a recompute, completing or aborting, changes a venue, adds
\* or removes an event, or changes any event field but `logistics`; and the
\* event whose logistics it changes belongs to the tenant and the date of
\* a request in progress.
C20_Frame ==
    [][/\ venues' = venues
       /\ Len(events') = Len(events)
       /\ \A j \in 1..Len(events) :
             /\ [events'[j] EXCEPT !.logistics = events[j].logistics] = events[j]
             /\ events'[j] # events[j] =>
                   \E p \in DOMAIN call :
                       /\ call[p].pc = "preload"
                       /\ events[j].org = OrgId
                       /\ events[j].date = call[p].date]_vars

\* a completed recompute wrote the day's events while the store held an
\* event of another tenant on that date and an event of another date, both
\* as before
C20_Witness ==
    \E d \in DoneCalls :
        /\ d.cause = "none" /\ Len(d.writes) >= 1
        /\ \E j \in 1..Len(d.pre) : d.pre[j].org = OtherOrg /\ d.post[j] = d.pre[j]
        /\ \E j \in 1..Len(d.pre) : d.pre[j].date # d.date /\ d.post[j] = d.pre[j]

\* ------------------------------------------------------------------------
\* The day view after a recompute
\* ------------------------------------------------------------------------
\* the view shows the day as the last request left it
ViewOf(d) ==
    /\ view.status = 200
    /\ Len(view.events) = Len(d.evs)
    /\ \A j \in 1..Len(view.events) : FromStored(view.events[j], d.post)

\* C21: a day view of the store a completed recompute left lists the events
\* in the order the recompute worked through them; every entry but the last
\* has toNext.toNextVenueId equal to the venue id of the entry after it, and
\* the last entry has km, minutes and toNextVenueId all null.
C21_SameOrder ==
    \A d \in DoneCalls :
        (d.cause = "none" /\ d.post = events /\ ViewOf(d)) =>
            /\ \A j \in 1..Len(view.events) : view.events[j].id = d.evs[j].id
            /\ \A j \in 1..(Len(view.events) - 1) :
                  view.events[j].toNext.toNextVenueId = view.events[j + 1].venue
            /\ Len(view.events) >= 1 =>
                  LET last == view.events[Len(view.events)].toNext IN
                  /\ last.km = NoneNum /\ last.minutes = NoneNum
                  /\ last.toNextVenueId = "null"

\* a three-event day was viewed after its recompute; two events start at the
\* same time and the order field puts the later document first
C21_Witness ==
    \E d \in DoneCalls :
        /\ d.cause = "none" /\ d.post = events /\ ViewOf(d)
        /\ Len(view.events) = 3
        /\ view.events[2].id > view.events[3].id
        /\ view.events[2].startTime = view.events[3].startTime
        /\ view.events[2].toNext.toNextVenueId = "v2"

====
